---- MODULE Spec2Model ----
(***************************************************************************)
(* Model of src/tool/src/bindings.rs: the Led value type, the FrameBuffer  *)
(* (grid of Leds built from an address map, diff-based render) and the     *)
(* EcController (device discovery, session open/close, pass-through LED    *)
(* commands).  The Ec protocol client (crate::Ec) and the HID enumeration  *)
(* are not part of bindings.rs; they are modelled from spec.md (sections   *)
(* 4.1 - 4.3) and marked so in MODEL_MAP.json.                             *)
(*                                                                         *)
(* Rust values are represented as follows:                                 *)
(*   (u8,u8,u8)        a 3-tuple <<r, g, b>>                               *)
(*   Option<T>         <<>> for None, <<x>> for Some(x)                    *)
(*   Vec<T>            a sequence; Rust index i is TLA+ index i + 1        *)
(*   Result<(), E>     the string "Ok" or the name of the error kind       *)
(***************************************************************************)
EXTENDS Integers, Sequences, FiniteSets, TLC

VARIABLES
    ctl,                \* "none": no EcController exists; "ready": one was constructed
    led_map,            \* EcController.led_map (<<>> while ctl = "none")
    framebuffer,        \* EcController.framebuffer
    saved_layer_mode,   \* EcController.saved_layer_mode : Option<(u8, u8)>
    hw,                 \* the keyboard: colour last written per LED, mode and brightness per layer
    led,                \* a Led value held by the caller : Option<Led>
    last,               \* the last operation: name, arguments, result, returned value,
                        \* transport traffic, state of the receiver before it
    trail               \* summaries of the two operations before `last`, newest first

vars == <<ctl, led_map, framebuffer, saved_layer_mode, hw, led, last, trail>>

----------------------------------------------------------------------------
(* Bounds of the exploration *)

\* longest HID device list the enumeration hands to EcController::new
MaxDevices == 2

\* most commands of one open() call that the transport fails
MaxFailures == 1

----------------------------------------------------------------------------
(* Machine arithmetic *)

RECURSIVE Pow2(_)
Pow2(n) == IF n = 0 THEN 1 ELSE 2 * Pow2(n - 1)

\* hex >> n on an unsigned integer
Shr(x, n) == x \div Pow2(n)

\* bitwise and / or of two naturals, bit by bit
RECURSIVE BitAnd(_, _)
BitAnd(a, b) ==
    IF a = 0 \/ b = 0 THEN 0
    ELSE (IF a % 2 = 1 /\ b % 2 = 1 THEN 1 ELSE 0) + 2 * BitAnd(a \div 2, b \div 2)

RECURSIVE BitOr(_, _)
BitOr(a, b) ==
    IF a = 0 THEN b
    ELSE IF b = 0 THEN a
    ELSE (IF a % 2 = 1 \/ b % 2 = 1 THEN 1 ELSE 0) + 2 * BitOr(a \div 2, b \div 2)

\* `x as u8`
AsU8(x) == x % 256

None == <<>>
Some(x) == <<x>>

RECURSIVE SumSeq(_)
SumSeq(s) == IF s = <<>> THEN 0 ELSE Head(s) + SumSeq(Tail(s))

RECURSIVE MaxSeq(_)
\* Iterator::max().unwrap_or(0) over row lengths
MaxSeq(s) ==
    IF s = <<>> THEN 0
    ELSE LET m == MaxSeq(Tail(s)) IN IF Head(s) > m THEN Head(s) ELSE m

----------------------------------------------------------------------------
(* Led *)

\* the absent marker of an address map (`let ni = 255`)
ni == 255

Led_new(index, r, g, b) ==
    [index |-> index, color |-> <<r, g, b>>, sync_color |-> None]

Led_from_rgb(index, color) ==
    [index |-> index, color |-> color, sync_color |-> None]

\* mutant: the green channel taken with the red channel's shift
HexChannels_GreenShift16(hex) ==
    << AsU8(BitAnd(Shr(hex, 16), 255)),
       AsU8(BitAnd(Shr(hex, 16), 255)),
       AsU8(BitAnd(hex, 255)) >>

\* the three channels of a packed colour, as from_hex and set_color_hex take them
HexChannels(hex) ==
    << AsU8(BitAnd(Shr(hex, 16), 255)),
       AsU8(BitAnd(Shr(hex, 8), 255)),
       AsU8(BitAnd(hex, 255)) >>

Led_from_hex(index, hex) ==
    [index |-> index, color |-> HexChannels(hex), sync_color |-> None]

Led_set_color_rgb(l, r, g, b) == [l EXCEPT !.color = <<r, g, b>>]

Led_set_color_hex(l, hex) == [l EXCEPT !.color = HexChannels(hex)]

----------------------------------------------------------------------------
(* FrameBuffer: pure parts *)

\* mutant: the absent cells are not filtered out
RowLeds_KeepsAbsent(row) ==
    [i \in 1..Len(row) |->
        [index |-> row[i], color |-> <<0, 0, 0>>, sync_color |-> None]]

\* mutant: a fresh Led counts as already synced to black
RowLeds_StartsSynced(row) ==
    LET kept == SelectSeq(row, LAMBDA idx : idx # 255)
    IN  [i \in 1..Len(kept) |->
            [index |-> kept[i], color |-> <<0, 0, 0>>, sync_color |-> Some(<<0, 0, 0>>)]]

\* one row of the map: absent cells filtered out, one fresh Led per remaining cell
RowLeds(row) ==
    LET kept == SelectSeq(row, LAMBDA idx : idx # 255)
    IN  [i \in 1..Len(kept) |->
            [index |-> kept[i], color |-> <<0, 0, 0>>, sync_color |-> None]]

FrameBuffer_new(map) ==
    LET leds == [r \in 1..Len(map) |-> RowLeds(map[r])]
        lens == [r \in 1..Len(leds) |-> Len(leds[r])]
    IN  [ leds     |-> leds,
          width    |-> AsU8(MaxSeq(lens)),
          height   |-> AsU8(Len(leds)),
          num_leds |-> SumSeq(lens) ]

\* self.leds.get(row).and_then(|r| r.get(col)), as positions of the Vecs
HasCell(fb, row, col) ==
    /\ row < Len(fb.leds)
    /\ col < Len(fb.leds[row + 1])

FrameBuffer_get(fb, row, col) ==
    IF HasCell(fb, row, col) THEN Some(fb.leds[row + 1][col + 1]) ELSE None

\* mutant: set records the new colour as synced as well
FrameBuffer_set_MarksSynced(fb, row, col, r, g, b) ==
    IF HasCell(fb, row, col)
    THEN [fb EXCEPT !.leds[row + 1][col + 1].color = <<r, g, b>>,
                    !.leds[row + 1][col + 1].sync_color = Some(<<r, g, b>>)]
    ELSE fb

FrameBuffer_set(fb, row, col, r, g, b) ==
    IF HasCell(fb, row, col)
    THEN [fb EXCEPT !.leds[row + 1][col + 1].color = <<r, g, b>>]
    ELSE fb

\* mutant: the outer loop stops one row short
FrameBuffer_fill_SkipsLastRow(fb, r, g, b) ==
    [fb EXCEPT !.leds =
        [i \in 1..Len(fb.leds) |->
            [j \in 1..Len(fb.leds[i]) |->
                IF i < Len(fb.leds)
                THEN [fb.leds[i][j] EXCEPT !.color = <<r, g, b>>]
                ELSE fb.leds[i][j]]]]

FrameBuffer_fill(fb, r, g, b) ==
    [fb EXCEPT !.leds =
        [i \in 1..Len(fb.leds) |->
            [j \in 1..Len(fb.leds[i]) |->
                [fb.leds[i][j] EXCEPT !.color = <<r, g, b>>]]]]

FrameBuffer_clear(fb) == FrameBuffer_fill(fb, 0, 0, 0)

RECURSIVE Flatten(_)
Flatten(rows) == IF rows = <<>> THEN <<>> ELSE Head(rows) \o Flatten(Tail(rows))

\* self.leds.iter().flatten().cloned().collect()
flat_leds(fb) == Flatten(fb.leds)

----------------------------------------------------------------------------
(* The Ec protocol client and the keyboard behind it (spec.md 4.2, 4.3).   *)
(* A command is one round trip on the transport; `outcome` is what the     *)
(* transport does with it: "ok", or "fail" (retries exhausted, the command *)
(* has no effect).  A command that violates its precondition is rejected   *)
(* before the transport is touched.                                        *)

Outcomes == {"ok", "fail"}

Layers == 0..3

\* layer-brightness selector: the fixed high nibble 0xF0 combined with a layer
IsLayerSelector(index) == \E layer \in Layers : index = BitOr(240, layer)

\* a plain LED index (0..254; 255 is reserved as absent)
IsLedIndex(index) == index \in 0..254

Exchange(cmd, args, outcome) == [cmd |-> cmd, args |-> args, outcome |-> outcome]

Rejected(h) == [hw |-> h, res |-> "PreconditionViolation", io |-> <<>>, ret |-> <<>>]

Failed(h, cmd, args) ==
    [hw |-> h, res |-> "TransportError", io |-> <<Exchange(cmd, args, "fail")>>, ret |-> <<>>]

Done(h, cmd, args, ret) ==
    [hw |-> h, res |-> "Ok", io |-> <<Exchange(cmd, args, "ok")>>, ret |-> ret]

Ec_led_set_color(h, index, r, g, b, outcome) ==
    IF ~IsLedIndex(index) THEN Rejected(h)
    ELSE IF outcome = "fail" THEN Failed(h, "led_set_color", <<index, r, g, b>>)
    ELSE Done([h EXCEPT !.color = (index :> <<r, g, b>>) @@ h.color],
              "led_set_color", <<index, r, g, b>>, <<>>)

Ec_led_set_mode(h, layer, mode, speed, outcome) ==
    IF layer \notin Layers THEN Rejected(h)
    ELSE IF outcome = "fail" THEN Failed(h, "led_set_mode", <<layer, mode, speed>>)
    ELSE Done([h EXCEPT !.mode[layer] = <<mode, speed>>],
              "led_set_mode", <<layer, mode, speed>>, <<>>)

Ec_led_get_mode(h, layer, outcome) ==
    IF layer \notin Layers THEN Rejected(h)
    ELSE IF outcome = "fail" THEN Failed(h, "led_get_mode", <<layer>>)
    ELSE Done(h, "led_get_mode", <<layer>>, h.mode[layer])

Ec_led_set_value(h, index, value, outcome) ==
    IF ~(IsLedIndex(index) \/ IsLayerSelector(index)) THEN Rejected(h)
    ELSE IF outcome = "fail" THEN Failed(h, "led_set_value", <<index, value>>)
    ELSE IF IsLayerSelector(index)
         THEN Done([h EXCEPT !.value[index - 240] = value],
                   "led_set_value", <<index, value>>, <<>>)
         ELSE Done(h, "led_set_value", <<index, value>>, <<>>)

----------------------------------------------------------------------------
(* Led::sync and FrameBuffer::render *)

\* mutant: no comparison with the synced colour, every Led is written
Led_sync_Always(l, h, outcome) ==
    LET e == Ec_led_set_color(h, l.index, l.color[1], l.color[2], l.color[3], outcome)
    IN  IF e.res = "Ok"
        THEN [led |-> [l EXCEPT !.sync_color = Some(l.color)],
              hw |-> e.hw, res |-> "Ok", io |-> e.io]
        ELSE [led |-> l, hw |-> e.hw, res |-> e.res, io |-> e.io]

\* mutant: the written colour is never recorded as synced
Led_sync_NoRecord(l, h, outcome) ==
    IF l.sync_color # Some(l.color)
    THEN LET e == Ec_led_set_color(h, l.index, l.color[1], l.color[2], l.color[3], outcome)
         IN  [led |-> l, hw |-> e.hw, res |-> e.res, io |-> e.io]
    ELSE [led |-> l, hw |-> h, res |-> "Ok", io |-> <<>>]

\* mutant: the colour is recorded as synced before the write is known to succeed
Led_sync_RecordOnFailure(l, h, outcome) ==
    IF l.sync_color # Some(l.color)
    THEN LET e == Ec_led_set_color(h, l.index, l.color[1], l.color[2], l.color[3], outcome)
         IN  [led |-> [l EXCEPT !.sync_color = Some(l.color)],
              hw |-> e.hw, res |-> e.res, io |-> e.io]
    ELSE [led |-> l, hw |-> h, res |-> "Ok", io |-> <<>>]

\* one Led against the controller: write when the colour is not the synced one,
\* record the colour as synced only when the write succeeded
Led_sync(l, h, outcome) ==
    IF l.sync_color # Some(l.color)
    THEN LET e == Ec_led_set_color(h, l.index, l.color[1], l.color[2], l.color[3], outcome)
         IN  IF e.res = "Ok"
             THEN [led |-> [l EXCEPT !.sync_color = Some(l.color)],
                   hw |-> e.hw, res |-> "Ok", io |-> e.io]
             ELSE [led |-> l, hw |-> e.hw, res |-> e.res, io |-> e.io]
    ELSE [led |-> l, hw |-> h, res |-> "Ok", io |-> <<>>]

\* mutant: the inner loop visits a row from its last Led to its first
RECURSIVE RowLoop_Backwards(_, _, _, _, _)
RowLoop_Backwards(row, h, io, j, failAt) ==
    IF j > Len(row) THEN [row |-> row, hw |-> h, res |-> "Ok", io |-> io]
    ELSE LET p == Len(row) + 1 - j
             s == Led_sync(row[p], h, IF Len(io) + 1 = failAt THEN "fail" ELSE "ok")
             row2 == [row EXCEPT ![p] = s.led]
         IN  IF s.res # "Ok"
             THEN [row |-> row2, hw |-> s.hw, res |-> s.res, io |-> io \o s.io]
             ELSE [a \in { <<row2, s.hw, io \o s.io>> } |->
                      RowLoop_Backwards(a[1], a[2], a[3], j + 1, failAt)
                  ][<<row2, s.hw, io \o s.io>>]

\* mutant: a failed write is remembered and the loop goes on to the next Led
RECURSIVE RowLoop_ContinuesAfterFailure(_, _, _, _, _)
RowLoop_ContinuesAfterFailure(row, h, io, j, failAt) ==
    IF j > Len(row)
    THEN [row |-> row, hw |-> h, io |-> io,
          res |-> IF \E k \in 1..Len(io) : io[k].outcome = "fail"
                  THEN "TransportError" ELSE "Ok"]
    ELSE LET s == Led_sync(row[j], h, IF Len(io) + 1 = failAt THEN "fail" ELSE "ok")
             row2 == [row EXCEPT ![j] = s.led]
         IN  [a \in { <<row2, s.hw, io \o s.io>> } |->
                  RowLoop_ContinuesAfterFailure(a[1], a[2], a[3], j + 1, failAt)
             ][<<row2, s.hw, io \o s.io>>]

\* the inner loop of render, `for led in row { led.sync(ec)?; }`, from the j-th
\* Led of the row on.  failAt is the transport's choice: the failAt-th command
\* of this render call fails (0: none does); io holds the commands the call has
\* issued so far.  `?` returns at the first error.
\* The next round's arguments are bound as values (a one-point function applied
\* to its point), which keeps the evaluation of ENABLED linear in the number of
\* Leds; the value is that of RowLoop(row2, s.hw, io \o s.io, j + 1, failAt).
RECURSIVE RowLoop(_, _, _, _, _)
RowLoop(row, h, io, j, failAt) ==
    IF j > Len(row) THEN [row |-> row, hw |-> h, res |-> "Ok", io |-> io]
    ELSE LET s == Led_sync(row[j], h, IF Len(io) + 1 = failAt THEN "fail" ELSE "ok")
             row2 == [row EXCEPT ![j] = s.led]
         IN  IF s.res # "Ok"
             THEN [row |-> row2, hw |-> s.hw, res |-> s.res, io |-> io \o s.io]
             ELSE [a \in { <<row2, s.hw, io \o s.io>> } |->
                      RowLoop(a[1], a[2], a[3], j + 1, failAt)
                  ][<<row2, s.hw, io \o s.io>>]

\* the outer loop of render, `for row in &mut self.leds`, from the i-th row on;
\* an error of the inner loop ends the call
RECURSIVE RenderLoop(_, _, _, _, _)
RenderLoop(fb, h, io, i, failAt) ==
    IF i > Len(fb.leds) THEN [fb |-> fb, hw |-> h, res |-> "Ok", io |-> io]
    ELSE [r \in { RowLoop(fb.leds[i], h, io, 1, failAt) } |->
            IF r.res # "Ok"
            THEN [fb |-> [fb EXCEPT !.leds[i] = r.row],
                  hw |-> r.hw, res |-> r.res, io |-> r.io]
            ELSE RenderLoop([fb EXCEPT !.leds[i] = r.row], r.hw, r.io, i + 1, failAt)
         ][RowLoop(fb.leds[i], h, io, 1, failAt)]

FrameBuffer_render(fb, h, failAt) == RenderLoop(fb, h, <<>>, 1, failAt)

----------------------------------------------------------------------------
(* EcController::new: device discovery and construction *)

\* mutant: the product id range one too wide
Matches_RangeTooWide(info) ==
    /\ info[1] = 13188
    /\ info[2] \in 1..11
    /\ info[3] = 1

\* a HID device as the enumeration reports it: <<vendor id, product id, interface>>
\* System76 Launch keyboards: (0x3384, 0x0001..=0x000A, 1)
Matches(info) ==
    /\ info[1] = 13188              \* 0x3384
    /\ info[2] \in 1..10            \* 0x0001..=0x000A
    /\ info[3] = 1

\* refactor this to set these per keyboard layout based on device info
BuiltinLedMap ==
    << <<69, 70, 71, 72, 73, 74, 75, 76, 77, 78, 79, 80, 81, 82, 83>>,
       <<68, 67, 66, 65, 64, 63, 62, 61, 60, 59, 58, 57, 56, 55, 54>>,
       <<39, 40, 41, 42, 43, 44, 45, 46, 47, 48, 49, 50, 51, 52, 53>>,
       <<38, 37, 36, 35, 34, 33, 32, 31, 30, 29, 28, 27, 26, ni, 25>>,
       <<12, 11, 10,  9,  8,  7,  6,  5,  4,  3,  2,  1,  0, ni, ni>>,
       <<13, 14, 15, 16, 17, ni, 18, 19, 20, 21, ni, 22, 23, 24, ni>> >>

\* mutant: a matching device that cannot be opened or initialized is skipped and
\* the next one is tried
RECURSIVE NewLoop_TriesNext(_, _, _, _)
NewLoop_TriesNext(devs, i, env, map) ==
    IF i > Len(devs)
    THEN [res |-> "DeviceNotFound", opened |-> <<>>, io |-> <<>>, made |-> FALSE]
    ELSE IF Matches(devs[i])
    THEN IF env.open /\ env.access /\ env.ec
         THEN [res |-> "Ok", opened |-> <<i>>,
               io |-> <<Exchange("probe", <<>>, "ok")>>, made |-> TRUE]
         ELSE LET rest == NewLoop_TriesNext(devs, i + 1, env, map)
              IN  [rest EXCEPT !.opened = <<i>> \o rest.opened]
    ELSE NewLoop_TriesNext(devs, i + 1, env, map)

\* the loop over api.device_list() from position i on.  env is what the
\* environment does: api (HidApi::new), open (open_device), access
\* (AccessHid::new) and ec (Ec::new) each succeed or fail.  The first
\* matching device decides the call; `opened` lists the positions of the
\* devices open_device was called on, `io` the traffic with an opened device.
RECURSIVE NewLoop(_, _, _, _)
NewLoop(devs, i, env, map) ==
    IF i > Len(devs)
    THEN [res |-> "DeviceNotFound", opened |-> <<>>, io |-> <<>>, made |-> FALSE]
    ELSE IF Matches(devs[i])
    THEN IF ~env.open
         THEN [res |-> "HidError", opened |-> <<i>>, io |-> <<>>, made |-> FALSE]
         ELSE IF ~env.access
         THEN [res |-> "EcError", opened |-> <<i>>, io |-> <<>>, made |-> FALSE]
         ELSE IF ~env.ec
         THEN [res |-> "EcError", opened |-> <<i>>,
               io |-> <<Exchange("probe", <<>>, "fail")>>, made |-> FALSE]
         ELSE [res |-> "Ok", opened |-> <<i>>,
               io |-> <<Exchange("probe", <<>>, "ok")>>, made |-> TRUE]
    ELSE NewLoop(devs, i + 1, env, map)

EcController_new(devs, env, map) ==
    IF ~env.api
    THEN [res |-> "HidError", opened |-> <<>>, io |-> <<>>, made |-> FALSE]
    ELSE NewLoop(devs, 1, env, map)

----------------------------------------------------------------------------
(* EcController: session hooks and pass-through commands *)

\* the loop of open() from `layer` on; outcomes[k] is what the transport does
\* with the k-th command of the call.  The results of both commands are only
\* printed; the function returns Ok(()) whatever they are.
RECURSIVE OpenLoop(_, _, _, _)
OpenLoop(h, io, layer, outcomes) ==
    IF layer >= 4 THEN [hw |-> h, res |-> "Ok", io |-> io]
    ELSE LET m == Ec_led_set_mode(h, layer, 1, 0, outcomes[2 * layer + 1])
             v == Ec_led_set_value(m.hw, BitOr(240, layer), 255, outcomes[2 * layer + 2])
         IN  OpenLoop(v.hw, io \o m.io \o v.io, layer + 1, outcomes)

\* mutant: the loop runs over 0..3 exclusive of 3
RECURSIVE OpenLoop_ThreeLayers(_, _, _, _)
OpenLoop_ThreeLayers(h, io, layer, outcomes) ==
    IF layer >= 3 THEN [hw |-> h, res |-> "Ok", io |-> io]
    ELSE LET m == Ec_led_set_mode(h, layer, 1, 0, outcomes[2 * layer + 1])
             v == Ec_led_set_value(m.hw, BitOr(240, layer), 255, outcomes[2 * layer + 2])
         IN  OpenLoop_ThreeLayers(v.hw, io \o m.io \o v.io, layer + 1, outcomes)

EcController_open_ThreeLayers(h, outcomes) == OpenLoop_ThreeLayers(h, <<>>, 0, outcomes)

\* mutant: each command's result is propagated, so the first failure ends open()
RECURSIVE OpenLoop_StopsAtFailure(_, _, _, _)
OpenLoop_StopsAtFailure(h, io, layer, outcomes) ==
    IF layer >= 4 THEN [hw |-> h, res |-> "Ok", io |-> io]
    ELSE LET m == Ec_led_set_mode(h, layer, 1, 0, outcomes[2 * layer + 1])
             v == Ec_led_set_value(m.hw, BitOr(240, layer), 255, outcomes[2 * layer + 2])
         IN  IF m.res # "Ok" THEN [hw |-> m.hw, res |-> m.res, io |-> io \o m.io]
             ELSE IF v.res # "Ok" THEN [hw |-> v.hw, res |-> v.res, io |-> io \o m.io \o v.io]
             ELSE OpenLoop_StopsAtFailure(v.hw, io \o m.io \o v.io, layer + 1, outcomes)

EcController_open_StopsAtFailure(h, outcomes) == OpenLoop_StopsAtFailure(h, <<>>, 0, outcomes)

EcController_open(h, outcomes) == OpenLoop(h, <<>>, 0, outcomes)

\* mutant: close() puts layer 1 back to a saved mode, as its disabled body would
EcController_close_RestoresLayer(h) ==
    LET m == Ec_led_set_mode(h, 1, 0, 0, "ok")
    IN  [hw |-> m.hw, res |-> m.res, io |-> m.io]

\* the body of close() is commented out: Ok(()) and nothing else
EcController_close(h) == [hw |-> h, res |-> "Ok", io |-> <<>>]

\* self.ec.led_get_mode(layer).map_err(to_py_err)
EcController_led_get_mode(h, layer, outcome) == Ec_led_get_mode(h, layer, outcome)

\* mutant: the layer is masked into range before it is handed on
EcController_led_set_mode_Masked(h, layer, mode, speed, outcome) ==
    Ec_led_set_mode(h, BitAnd(layer, 3), mode, speed, outcome)

\* self.ec.led_set_mode(layer, mode, speed).map_err(to_py_err)
EcController_led_set_mode(h, layer, mode, speed, outcome) ==
    Ec_led_set_mode(h, layer, mode, speed, outcome)

\* what the keyboard answers for an LED's colour: the colour last written to
\* it, or, for an LED never written, whatever the firmware shows (unknown)
Ec_led_get_color(h, index, unknown, outcome) ==
    IF ~IsLedIndex(index) THEN Rejected(h)
    ELSE IF outcome = "fail" THEN Failed(h, "led_get_color", <<index>>)
    ELSE Done(h, "led_get_color", <<index>>,
              IF index \in DOMAIN h.color THEN h.color[index] ELSE unknown)

\* self.ec.led_set_color(index, r, g, b).map_err(to_py_err)
EcController_led_set_color(h, index, r, g, b, outcome) ==
    Ec_led_set_color(h, index, r, g, b, outcome)

\* get_led: the colour read from the keyboard, `?` on failure, else a new Led
\* with sync_color None
EcController_get_led(h, index, unknown, outcome) ==
    LET e == Ec_led_get_color(h, index, unknown, outcome)
    IN  IF e.res # "Ok"
        THEN [hw |-> e.hw, res |-> e.res, io |-> e.io, led |-> None]
        ELSE [hw |-> e.hw, res |-> "Ok", io |-> e.io,
              led |-> Some([index |-> index, color |-> e.ret, sync_color |-> None])]

\* mutant: the synced Led is stored over the framebuffer Led with the same index
EcController_set_led_WritesBack(fb, h, l, outcome) ==
    LET s == Led_sync(l, h, outcome)
        hit == { c \in (1..fb.height) \X (1..fb.width) :
                    /\ c[2] <= Len(fb.leds[c[1]])
                    /\ fb.leds[c[1]][c[2]].index = l.index }
    IN  [fb |-> IF hit = {} THEN fb
                ELSE LET c == CHOOSE x \in hit : TRUE
                     IN  [fb EXCEPT !.leds[c[1]][c[2]] = s.led],
         hw |-> s.hw, res |-> s.res, io |-> s.io]

\* set_led(mut led: Led): sync on the argument, a value of its own; the
\* controller's framebuffer is not touched and the synced Led is dropped
EcController_set_led(fb, h, l, outcome) ==
    LET s == Led_sync(l, h, outcome)
    IN  [fb |-> fb, hw |-> s.hw, res |-> s.res, io |-> s.io]

----------------------------------------------------------------------------
(* State *)

NoFrameBuffer == FrameBuffer_new(<<>>)

Op(op, args, res, ret, io, pre) ==
    [op |-> op, args |-> args, res |-> res, ret |-> ret, io |-> io, pre |-> pre]

\* what `trail` keeps of an operation: its name, its result, the colour of a fill
Summary(l) ==
    [op |-> l.op, res |-> l.res, color |-> IF l.op = "fill" THEN l.args ELSE <<>>]

NoSummary == [op |-> "-", res |-> "Ok", color |-> <<>>]

Push(l) == <<Summary(l), trail[1]>>

\* the keyboard as it is found: nothing written yet, every layer in the
\* animation mode and at the brightness the firmware was left with
Keyboard(mode, value) ==
    [color |-> <<>>, mode |-> [l \in Layers |-> mode], value |-> [l \in Layers |-> value]]

InitWith(h) ==
    /\ ctl = "none"
    /\ led_map = <<>>
    /\ framebuffer = NoFrameBuffer
    /\ saved_layer_mode = None
    /\ hw = h
    /\ led = None
    /\ last = Op("-", <<>>, "Ok", <<>>, <<>>, <<>>)
    /\ trail = <<NoSummary, NoSummary>>

Init == InitWith(Keyboard(<<0, 0>>, 0))

----------------------------------------------------------------------------
(* Inputs of the exploration *)

\* device descriptors: the two ends of the product id range, and one off by each field
DeviceKinds ==
    { <<13188, 1, 1>>, <<13188, 10, 1>>,
      <<13188, 11, 1>>, <<13188, 1, 0>>, <<1133, 1, 1>> }

DeviceLists == UNION { [1..n -> DeviceKinds] : n \in 0..MaxDevices }

\* the enumerations of a host with one keyboard attached, alone or behind a mouse
KeyboardAttached == { << <<13188, 1, 1>> >>, << <<1133, 1, 1>>, <<13188, 10, 1>> >> }

\* what the environment does to a construction: every step succeeds, or one step
\* fails (the steps after a failed one do not run)
Envs ==
    { e \in [api : BOOLEAN, open : BOOLEAN, access : BOOLEAN, ec : BOOLEAN] :
        Cardinality({f \in {"api", "open", "access", "ec"} : ~e[f]}) <= 1 }

\* a small layout with an absent cell inside a row and absent cells at a row's end
SmallLedMap == << <<0, ni, 1>>, <<2, ni, ni>> >>

Colors == { <<0, 0, 0>>, <<255, 0, 160>> }

\* rows and columns handed to get and set: every cell of the map and one beyond
RowArgs == 0..Len(led_map)
ColArgs == 0..MaxSeq([r \in 1..Len(led_map) |-> Len(led_map[r])])

\* what the transport does with the 8 commands of an open() call
OpenOutcomes ==
    { o \in [1..8 -> Outcomes] : Cardinality({k \in 1..8 : o[k] = "fail"}) <= MaxFailures }

\* layers handed to led_get_mode and led_set_mode: the last valid one and beyond
LayerArgs == {3, 4, 5, 255}

\* (mode, speed) handed to led_set_mode
ModeArgs == { <<7, 128>> }

\* packed colours handed to from_hex and set_color_hex: u32 values up to
\* 0x7FFFFFFF, the largest integer TLC represents
HexArgs ==
    { 0, 1, 255, 256, 65536, 1193046,
      16711840,         \* 0xFF00A0
      16777215,         \* 0xFFFFFF
      16777216,         \* 0x01000000
      33489056,         \* 0x01FF00A0
      1073741824,       \* 0x40000000
      2147483647 }      \* 0x7FFFFFFF

LedColors == Colors \cup { <<1, 2, 3>> }

LedIndexArgs == {0, 25}

----------------------------------------------------------------------------
(* Actions: one per operation of the Python surface *)

New(devs, env, map) ==
    /\ ctl = "none"
    /\ LET n == EcController_new(devs, env, map)
       IN  /\ ctl' = IF n.made THEN "ready" ELSE "none"
           /\ led_map' = IF n.made THEN map ELSE led_map
           /\ framebuffer' = IF n.made THEN FrameBuffer_new(map) ELSE framebuffer
           /\ saved_layer_mode' = None
           /\ last' = Op("new", <<devs, env>>, n.res, n.opened, n.io, <<>>)
    /\ trail' = Push(last)
    /\ UNCHANGED <<hw, led>>

FbGet(row, col) ==
    /\ ctl = "ready"
    /\ last' = Op("get", <<row, col>>, "Ok", FrameBuffer_get(framebuffer, row, col),
                  <<>>, framebuffer)
    /\ trail' = Push(last)
    /\ UNCHANGED <<ctl, led_map, framebuffer, saved_layer_mode, hw, led>>

FbSet(row, col, c) ==
    /\ ctl = "ready"
    /\ framebuffer' = FrameBuffer_set(framebuffer, row, col, c[1], c[2], c[3])
    /\ last' = Op("set", <<row, col, c>>, "Ok", <<>>, <<>>, framebuffer)
    /\ trail' = Push(last)
    /\ UNCHANGED <<ctl, led_map, saved_layer_mode, hw, led>>

FbFill(c) ==
    /\ ctl = "ready"
    /\ framebuffer' = FrameBuffer_fill(framebuffer, c[1], c[2], c[3])
    /\ last' = Op("fill", c, "Ok", <<>>, <<>>, framebuffer)
    /\ trail' = Push(last)
    /\ UNCHANGED <<ctl, led_map, saved_layer_mode, hw, led>>

FbClear ==
    /\ ctl = "ready"
    /\ framebuffer' = FrameBuffer_clear(framebuffer)
    /\ last' = Op("clear", <<>>, "Ok", <<>>, <<>>, framebuffer)
    /\ trail' = Push(last)
    /\ UNCHANGED <<ctl, led_map, saved_layer_mode, hw, led>>

\* render_framebuffer: self.framebuffer.render(&mut self.ec)
RenderFramebuffer(failAt) ==
    /\ ctl = "ready"
    /\ LET r == FrameBuffer_render(framebuffer, hw, failAt)
       IN  /\ framebuffer' = r.fb
           /\ hw' = r.hw
           /\ last' = Op("render", <<>>, r.res, <<>>, r.io, framebuffer)
    /\ trail' = Push(last)
    /\ UNCHANGED <<ctl, led_map, saved_layer_mode, led>>

Open(outcomes) ==
    /\ ctl = "ready"
    /\ LET o == EcController_open(hw, outcomes)
       IN  /\ hw' = o.hw
           /\ last' = Op("open", <<>>, o.res, <<>>, o.io, <<>>)
    /\ trail' = Push(last)
    /\ UNCHANGED <<ctl, led_map, framebuffer, saved_layer_mode, led>>

Close ==
    /\ ctl = "ready"
    /\ LET c == EcController_close(hw)
       IN  /\ hw' = c.hw
           /\ last' = Op("close", <<>>, c.res, <<>>, c.io, <<>>)
    /\ trail' = Push(last)
    /\ UNCHANGED <<ctl, led_map, framebuffer, saved_layer_mode, led>>

LedSetMode(layer, mode, speed, outcome) ==
    /\ ctl = "ready"
    /\ LET e == EcController_led_set_mode(hw, layer, mode, speed, outcome)
       IN  /\ hw' = e.hw
           /\ last' = Op("led_set_mode", <<layer, mode, speed>>, e.res, e.ret, e.io, <<>>)
    /\ trail' = Push(last)
    /\ UNCHANGED <<ctl, led_map, framebuffer, saved_layer_mode, led>>

LedGetMode(layer, outcome) ==
    /\ ctl = "ready"
    /\ LET e == EcController_led_get_mode(hw, layer, outcome)
       IN  /\ hw' = e.hw
           /\ last' = Op("led_get_mode", <<layer>>, e.res, e.ret, e.io, <<>>)
    /\ trail' = Push(last)
    /\ UNCHANGED <<ctl, led_map, framebuffer, saved_layer_mode, led>>

LedSetColor(index, c, outcome) ==
    /\ ctl = "ready"
    /\ LET e == EcController_led_set_color(hw, index, c[1], c[2], c[3], outcome)
       IN  /\ hw' = e.hw
           /\ last' = Op("led_set_color", <<index, c>>, e.res, e.ret, e.io, <<>>)
    /\ trail' = Push(last)
    /\ UNCHANGED <<ctl, led_map, framebuffer, saved_layer_mode, led>>

\* get_led; the caller holds the Led it returns (on an error it holds what it held)
GetLed(index, unknown, outcome) ==
    /\ ctl = "ready"
    /\ LET g == EcController_get_led(hw, index, unknown, outcome)
       IN  /\ hw' = g.hw
           /\ led' = IF g.res = "Ok" THEN g.led ELSE led
           /\ last' = Op("get_led", <<index>>, g.res, g.led, g.io, <<>>)
    /\ trail' = Push(last)
    /\ UNCHANGED <<ctl, led_map, framebuffer, saved_layer_mode>>

\* set_led(l): l is passed by value, so a Led the caller holds stays as it is
SetLed(l, outcome) ==
    /\ ctl = "ready"
    /\ LET s == EcController_set_led(framebuffer, hw, l, outcome)
       IN  /\ framebuffer' = s.fb
           /\ hw' = s.hw
           /\ last' = Op("set_led", l, s.res, <<>>, s.io, framebuffer)
    /\ trail' = Push(last)
    /\ UNCHANGED <<ctl, led_map, saved_layer_mode, led>>

\* get(row, col) with the caller keeping the Led it returns (None included)
FbGetKeep(row, col) ==
    /\ ctl = "ready"
    /\ led' = FrameBuffer_get(framebuffer, row, col)
    /\ last' = Op("get", <<row, col>>, "Ok", FrameBuffer_get(framebuffer, row, col),
                  <<>>, framebuffer)
    /\ trail' = Push(last)
    /\ UNCHANGED <<ctl, led_map, framebuffer, saved_layer_mode, hw>>

\* the Led class, on the Led value the caller holds
LedNew(index, c) ==
    /\ led' = Some(Led_new(index, c[1], c[2], c[3]))
    /\ last' = Op("Led.new", <<index, c>>, "Ok", <<>>, <<>>, led)
    /\ trail' = Push(last)
    /\ UNCHANGED <<ctl, led_map, framebuffer, saved_layer_mode, hw>>

LedFromRgb(index, c) ==
    /\ led' = Some(Led_from_rgb(index, c))
    /\ last' = Op("Led.from_rgb", <<index, c>>, "Ok", <<>>, <<>>, led)
    /\ trail' = Push(last)
    /\ UNCHANGED <<ctl, led_map, framebuffer, saved_layer_mode, hw>>

LedFromHex(index, hex) ==
    /\ led' = Some(Led_from_hex(index, hex))
    /\ last' = Op("Led.from_hex", <<index, hex>>, "Ok", <<>>, <<>>, led)
    /\ trail' = Push(last)
    /\ UNCHANGED <<ctl, led_map, framebuffer, saved_layer_mode, hw>>

LedSetColorRgb(c) ==
    /\ led # None
    /\ led' = Some(Led_set_color_rgb(led[1], c[1], c[2], c[3]))
    /\ last' = Op("Led.set_color_rgb", c, "Ok", <<>>, <<>>, led)
    /\ trail' = Push(last)
    /\ UNCHANGED <<ctl, led_map, framebuffer, saved_layer_mode, hw>>

LedSetColorHex(hex) ==
    /\ led # None
    /\ led' = Some(Led_set_color_hex(led[1], hex))
    /\ last' = Op("Led.set_color_hex", <<hex>>, "Ok", <<>>, <<>>, led)
    /\ trail' = Push(last)
    /\ UNCHANGED <<ctl, led_map, framebuffer, saved_layer_mode, hw>>

Next ==
    \/ \E devs \in KeyboardAttached, env \in Envs : New(devs, env, SmallLedMap)
    \/ \E row \in RowArgs, col \in ColArgs, c \in Colors : FbSet(row, col, c)
    \/ \E c \in Colors : FbFill(c)
    \/ FbClear
    \/ \E failAt \in 0..framebuffer.num_leds : RenderFramebuffer(failAt)

Spec == Init /\ [][Next]_vars

\* discovery alone, over every bounded enumeration of HID devices
NextDiscovery ==
    \E devs \in DeviceLists, env \in Envs : New(devs, env, BuiltinLedMap)

SpecDiscovery == Init /\ [][NextDiscovery]_vars

\* the session hooks and the layer commands, on a keyboard found in an
\* animation mode
InitSession == InitWith(Keyboard(<<7, 128>>, 64))

NextSession ==
    \/ \E devs \in KeyboardAttached, env \in Envs : New(devs, env, SmallLedMap)
    \/ \E outcomes \in OpenOutcomes : Open(outcomes)
    \/ Close
    \/ \E layer \in LayerArgs, m \in ModeArgs, outcome \in Outcomes :
            LedSetMode(layer, m[1], m[2], outcome)
    \/ \E layer \in LayerArgs, outcome \in Outcomes : LedGetMode(layer, outcome)

SpecSession == InitSession /\ [][NextSession]_vars

\* the Led class alone
NextLed ==
    \/ \E index \in LedIndexArgs, c \in LedColors : LedNew(index, c)
    \/ \E index \in LedIndexArgs, c \in LedColors : LedFromRgb(index, c)
    \/ \E index \in LedIndexArgs, hex \in HexArgs : LedFromHex(index, hex)
    \/ \E c \in LedColors : LedSetColorRgb(c)
    \/ \E hex \in HexArgs : LedSetColorHex(hex)

SpecLed == Init /\ [][NextLed]_vars

\* the built-in layout: construction and get on every cell of the grid and beyond
NextLayout ==
    \/ \E devs \in KeyboardAttached, env \in Envs : New(devs, env, BuiltinLedMap)
    \/ \E row \in RowArgs, col \in ColArgs : FbGet(row, col)

SpecLayout == Init /\ [][NextLayout]_vars

\* the built-in layout under every framebuffer operation, for the first three
\* operations on a newly constructed controller: get and set on the cell of an
\* absent marker inside a row and on a cell below the grid, and renders in
\* which no command, the first command or the last of a full redraw fails
BuiltinCells == { <<3, 13>>, <<6, 0>> }

NewlyConstructed == last.op = "new" \/ trail[1].op = "new" \/ trail[2].op = "new"

NextBuiltin ==
    \/ \E env \in {e \in Envs : e.api /\ e.open /\ e.access /\ e.ec} :
            New(<< <<13188, 1, 1>> >>, env, BuiltinLedMap)
    \/ \E cell \in BuiltinCells : NewlyConstructed /\ FbGet(cell[1], cell[2])
    \/ \E cell \in BuiltinCells, c \in Colors :
            NewlyConstructed /\ FbSet(cell[1], cell[2], c)
    \/ \E c \in Colors : NewlyConstructed /\ FbFill(c)
    \/ NewlyConstructed /\ FbClear
    \/ \E failAt \in {0, 1, framebuffer.num_leds} :
            NewlyConstructed /\ RenderFramebuffer(failAt)

SpecBuiltin == Init /\ [][NextBuiltin]_vars

\* the framebuffer next to the low-level colour commands: led_set_color and
\* set_led on Leds of the framebuffer, between set, fill and render
DirectIndexArgs == {0, 2}

DirectLeds == { Led_new(i, c[1], c[2], c[3]) : i \in DirectIndexArgs, c \in Colors }

NextDirect ==
    \/ \E env \in {e \in Envs : e.api /\ e.open /\ e.access /\ e.ec} :
            New(<< <<13188, 1, 1>> >>, env, SmallLedMap)
    \/ \E cell \in { <<0, 0>>, <<1, 0>> }, c \in Colors : FbSet(cell[1], cell[2], c)
    \/ \E c \in Colors : FbFill(c)
    \/ \E failAt \in {0, 1} : RenderFramebuffer(failAt)
    \/ \E index \in DirectIndexArgs, c \in Colors, outcome \in Outcomes :
            LedSetColor(index, c, outcome)
    \/ \E l \in DirectLeds, outcome \in Outcomes : SetLed(l, outcome)

SpecDirect == Init /\ [][NextDirect]_vars

\* render re-invoked until it succeeds: after a failed render the caller does
\* nothing but call render again (no colour change in between); the transport
\* lets the first write of a render through again and again (weak fairness on
\* the renders whose first command does not fail)
Retrying == last.op = "render" /\ last.res # "Ok"

RenderProgress == \E failAt \in (0..framebuffer.num_leds) \ {1} : RenderFramebuffer(failAt)

NextRetry ==
    \/ \E env \in {e \in Envs : e.api /\ e.open /\ e.access /\ e.ec} :
            New(<< <<13188, 1, 1>> >>, env, SmallLedMap)
    \/ \E c \in Colors : ~Retrying /\ FbSet(1, 0, c)
    \/ \E c \in Colors : ~Retrying /\ FbFill(c)
    \/ \E failAt \in 0..framebuffer.num_leds : RenderFramebuffer(failAt)

SpecRetry == Init /\ [][NextRetry]_vars /\ WF_vars(RenderProgress)

\* Led values in the caller's hands: the copies get and get_led return and the
\* Leds the constructors make, changed by the Led setters and passed to set_led
CopyCells == { <<0, 0>>, <<0, 2>> }

CopyIndexArgs == {0}

CopyHexArgs == {16711840}

NextCopies ==
    \/ \E env \in {e \in Envs : e.api /\ e.open /\ e.access /\ e.ec} :
            New(<< <<13188, 1, 1>> >>, env, SmallLedMap)
    \/ \E cell \in CopyCells : FbGetKeep(cell[1], cell[2])
    \/ \E c \in Colors : FbFill(c)
    \/ \E failAt \in {0, 1} : RenderFramebuffer(failAt)
    \/ \E index \in CopyIndexArgs, c \in Colors : LedNew(index, c)
    \/ \E index \in CopyIndexArgs, c \in Colors : LedFromRgb(index, c)
    \/ \E index \in CopyIndexArgs, hex \in CopyHexArgs : LedFromHex(index, hex)
    \/ \E index \in CopyIndexArgs, unknown \in Colors, outcome \in Outcomes :
            GetLed(index, unknown, outcome)
    \/ \E c \in Colors : LedSetColorRgb(c)
    \/ \E hex \in CopyHexArgs : LedSetColorHex(hex)
    \/ \E outcome \in Outcomes : led # None /\ SetLed(led[1], outcome)

SpecCopies == Init /\ [][NextCopies]_vars

----------------------------------------------------------------------------
(* Properties.  They read the record of the last operation: `last.pre` is   *)
(* the framebuffer (or the held Led) before it, `last.io` the commands it   *)
(* put on the transport, in order, failed ones included.                    *)

\* the Led indices an operation issued led_set_color for
Issued(l) == { l.io[k].args[1] : k \in 1..Len(l.io) }

\* the Led indices an operation wrote and had confirmed
Confirmed(l) == { l.io[k].args[1] : k \in { j \in 1..Len(l.io) : l.io[j].outcome = "ok" } }

\* the Leds of a framebuffer whose colour is not their last-synced colour
OutOfSync(fb) ==
    { flat_leds(fb)[k].index :
        k \in { j \in 1..Len(flat_leds(fb)) :
                  flat_leds(fb)[j].sync_color # <<flat_leds(fb)[j].color>> } }

InSync(fb) ==
    { flat_leds(fb)[k].index : k \in 1..Len(flat_leds(fb)) } \ OutOfSync(fb)

\* a cell of the address map, by grid coordinates
InGrid(row, col) == row < Len(led_map) /\ col < Len(led_map[row + 1])
MapEntry(row, col) == led_map[row + 1][col + 1]

(* C1: get(row, col) returns a Led whose index is the map entry at (row, col)
   when that entry is not the absent marker 255, and none when it is; for the
   row [38, ..., 26, 255, 25] of the built-in map, get(row, 13) is none and
   get(row, 14) has index 25. *)
C1_GetFollowsMap ==
    (last.op = "get" /\ InGrid(last.args[1], last.args[2])) =>
        IF MapEntry(last.args[1], last.args[2]) # 255
        THEN /\ last.ret # <<>>
             /\ last.ret[1].index = MapEntry(last.args[1], last.args[2])
        ELSE last.ret = <<>>

(* C2: render() never issues a led_set_color for a Led whose current colour
   equals its last-synced colour. *)
C2_NoWriteWhenInSync ==
    last.op = "render" => Issued(last) \cap InSync(last.pre) = {}

C2_Witness ==
    /\ last.op = "render"
    /\ Issued(last) # {}
    /\ InSync(last.pre) # {}

(* C3, as claimed: of two consecutive render() calls with no colour change
   between them, the second issues no hardware write. *)
C3_SecondRenderSilent ==
    (last.op = "render" /\ trail[1].op = "render") => last.io = <<>>

(* C3, amended: when a render() returned success, an immediately following
   render() issues no hardware write. *)
C3_SecondRenderSilentAfterSuccess ==
    (last.op = "render" /\ trail[1].op = "render" /\ trail[1].res = "Ok") =>
        last.io = <<>>

C3_Witness ==
    /\ last.op = "render"
    /\ trail[1].op = "render" /\ trail[1].res = "Ok"
    /\ trail[2].op = "set"
    /\ last.io = <<>>

(* C4, as claimed: from any reachable state, fill(r,g,b) followed by render()
   issues exactly num_leds writes on that render, and an immediately following
   render() issues none.  Stated for renders all of whose writes succeed, the
   reading most favourable to the claim. *)
C4_FillRendersAll ==
    /\ (last.op = "render" /\ last.res = "Ok" /\ trail[1].op = "fill") =>
            Len(last.io) = last.pre.num_leds
    /\ (last.op = "render" /\ trail[1].op = "render" /\ trail[1].res = "Ok"
            /\ trail[2].op = "fill") =>
            last.io = <<>>

(* C4, amended: fill(r,g,b) followed by a render() in which every write
   succeeds issues exactly one write for each Led whose last-synced colour is
   not (r,g,b), which is num_leds writes when no Led was last synced to
   (r,g,b); an immediately following render() issues none. *)
C4_FillRendersChanged ==
    /\ (last.op = "render" /\ last.res = "Ok" /\ trail[1].op = "fill") =>
            /\ Len(last.io) =
                 Cardinality({ k \in 1..Len(flat_leds(last.pre)) :
                     flat_leds(last.pre)[k].sync_color # <<trail[1].color>> })
            /\ (\A k \in 1..Len(flat_leds(last.pre)) :
                     flat_leds(last.pre)[k].sync_color # <<trail[1].color>>)
                  => Len(last.io) = last.pre.num_leds
    /\ (last.op = "render" /\ trail[1].op = "render" /\ trail[1].res = "Ok"
            /\ trail[2].op = "fill") =>
            last.io = <<>>

C4_Witness ==
    /\ last.op = "render" /\ last.res = "Ok" /\ trail[1].op = "fill"
    /\ Len(last.io) > 0
    /\ Len(last.io) < last.pre.num_leds

(* C5, as claimed: a render() that fails leaves the last-synced colour of the
   Led it failed at and of every Led it did not confirm untouched, and the next
   render() (no colour change between) issues writes for exactly the Leds left
   unconfirmed and for no confirmed one. *)
C5_RetryExactlyUnconfirmed ==
    /\ (last.op = "render" /\ last.res # "Ok") =>
            \A k \in 1..Len(flat_leds(framebuffer)) :
                flat_leds(framebuffer)[k].index \notin Confirmed(last) =>
                    flat_leds(framebuffer)[k].sync_color
                        = flat_leds(last.pre)[k].sync_color
    /\ (last.op = "render" /\ trail[1].op = "render" /\ trail[1].res # "Ok") =>
            Issued(last) = OutOfSync(last.pre)

(* C5, amended: a render() that fails leaves the last-synced colour of the
   Led it failed at and of every Led it did not confirm untouched; the next
   render() issues writes only for Leds left unconfirmed, never for a confirmed
   one, and for every unconfirmed Led when none of its own writes fails. *)
C5_RetryOnlyUnconfirmed ==
    /\ (last.op = "render" /\ last.res # "Ok") =>
            \A k \in 1..Len(flat_leds(framebuffer)) :
                flat_leds(framebuffer)[k].index \notin Confirmed(last) =>
                    flat_leds(framebuffer)[k].sync_color
                        = flat_leds(last.pre)[k].sync_color
    /\ (last.op = "render" /\ trail[1].op = "render" /\ trail[1].res # "Ok") =>
            /\ Issued(last) \subseteq OutOfSync(last.pre)
            /\ Issued(last) # {}
            /\ last.res = "Ok" => Issued(last) = OutOfSync(last.pre)

C5_Witness ==
    /\ last.op = "render" /\ last.res = "Ok"
    /\ trail[1].op = "render" /\ trail[1].res # "Ok"
    /\ InSync(last.pre) # {}
    /\ Cardinality(Issued(last)) >= 2

(* C6: set(row, col, r, g, b) on a cell whose map entry is the absent marker
   255, inside a row or at its end, returns success and leaves the colour and
   the last-synced colour of every Led unchanged. *)
C6_SetAbsentIsNoOp ==
    (last.op = "set" /\ InGrid(last.args[1], last.args[2])
        /\ MapEntry(last.args[1], last.args[2]) = 255) =>
        /\ last.res = "Ok"
        /\ framebuffer = last.pre

(* C7: led_set_mode and led_get_mode with a layer outside 0..3 are rejected as
   PreconditionViolation before anything is written to or read from the
   transport. *)
C7_BadLayerRejected ==
    (last.op \in {"led_set_mode", "led_get_mode"} /\ last.args[1] \notin 0..3) =>
        /\ last.res = "PreconditionViolation"
        /\ last.io = <<>>

C7_Witness ==
    /\ last.op = "led_set_mode"
    /\ last.args[1] = 5
    /\ last.res = "PreconditionViolation"

(* C8: when the enumeration holds no device with vendor id 0x3384, product id
   in 0x0001..0x000A and interface 1, construction fails with the
   device-not-found error: no device is opened, nothing goes over a transport,
   and no controller, map or framebuffer exists afterwards. *)
C8_NoMatchNoController ==
    (last.op = "new" /\ last.args[2].api
        /\ \A i \in 1..Len(last.args[1]) :
              ~(last.args[1][i][1] = 13188 /\ last.args[1][i][2] >= 1
                  /\ last.args[1][i][2] <= 10 /\ last.args[1][i][3] = 1)) =>
        /\ last.res = "DeviceNotFound"
        /\ last.ret = <<>>
        /\ last.io = <<>>
        /\ ctl = "none"
        /\ led_map = <<>>
        /\ framebuffer = NoFrameBuffer

C8_Witness ==
    /\ last.op = "new"
    /\ Len(last.args[1]) = 2
    /\ last.args[1][1] = <<13188, 11, 1>>
    /\ last.args[2].api
    /\ last.res = "DeviceNotFound"

(* C9: the packed value 0xFF00A0 decomposes into (255, 0, 160), and
   from_hex / set_color_hex with a packed value hex leave the Led as from_rgb /
   set_color_rgb do with the channels ((hex >> 16) & 0xFF, (hex >> 8) & 0xFF,
   hex & 0xFF); the bits of hex above bit 23 have no effect. *)
C9_HexAsChannels ==
    /\ last.op = "Led.set_color_hex" =>
          LET hex == last.args[1]
              r == (hex \div 65536) % 256
              g == (hex \div 256) % 256
              b == hex % 256
          IN  /\ led = <<Led_set_color_rgb(last.pre[1], r, g, b)>>
              /\ 65536 * led[1].color[1] + 256 * led[1].color[2] + led[1].color[3]
                    = hex % 16777216
              /\ hex % 16777216 = 16711840 => led[1].color = <<255, 0, 160>>
    /\ last.op = "Led.from_hex" =>
          LET hex == last.args[2]
              r == (hex \div 65536) % 256
              g == (hex \div 256) % 256
              b == hex % 256
          IN  /\ led = <<Led_from_rgb(last.args[1], <<r, g, b>>)>>
              /\ 65536 * led[1].color[1] + 256 * led[1].color[2] + led[1].color[3]
                    = hex % 16777216
              /\ hex % 16777216 = 16711840 => led[1].color = <<255, 0, 160>>

C9_Witness ==
    /\ last.op = "Led.set_color_hex"
    /\ last.args[1] = 33489056
    /\ last.pre[1].color = <<1, 2, 3>>
    /\ led[1].color = <<255, 0, 160>>

(* C10: open() issues, for each layer 0, 1, 2, 3 in ascending order,
   led_set_mode(layer, 1, 0) and then led_set_value(0xF0 | layer, 0xFF): 8
   commands, each layer's mode command before its brightness command; after an
   open() all of whose commands succeeded every layer is in mode 1 at
   brightness 0xFF. *)
C10_OpenInitializesLayers ==
    last.op = "open" =>
        /\ Len(last.io) = 8
        /\ \A layer \in 0..3 :
              /\ last.io[2 * layer + 1].cmd = "led_set_mode"
              /\ last.io[2 * layer + 1].args = <<layer, 1, 0>>
              /\ last.io[2 * layer + 2].cmd = "led_set_value"
              /\ last.io[2 * layer + 2].args = <<240 + layer, 255>>
        /\ (\A k \in 1..8 : last.io[k].outcome = "ok") =>
              \A layer \in 0..3 : hw.mode[layer][1] = 1 /\ hw.value[layer] = 255

C10_Witness ==
    /\ last.op = "open"
    /\ \A k \in 1..Len(last.io) : last.io[k].outcome = "ok"
    /\ trail[1].op = "led_set_mode" /\ trail[1].res = "Ok"
    /\ \A layer \in 0..3 : hw.mode[layer] = <<1, 0>> /\ hw.value[layer] = 255

(* C11: in the controller's framebuffer, after construction and after any
   sequence of get, set, fill, clear and render, the Led indices are pairwise
   distinct and no Led has the absent marker 255 as its index. *)
C11_IndicesUniqueAndPresent ==
    ctl = "ready" =>
        /\ \A j, k \in 1..Len(flat_leds(framebuffer)) :
              flat_leds(framebuffer)[j].index = flat_leds(framebuffer)[k].index => j = k
        /\ \A k \in 1..Len(flat_leds(framebuffer)) :
              flat_leds(framebuffer)[k].index # 255

C11_Witness ==
    /\ ctl = "ready"
    /\ framebuffer.num_leds = 84
    /\ last.op = "render" /\ last.res = "Ok"
    /\ trail[1].op = "set"
    /\ trail[2].op = "fill"

(* C12: a freshly constructed framebuffer has every Led at colour (0,0,0) with
   no last-synced colour, and the first render() on it, with no set or fill
   before and every write succeeding, issues exactly one write per Led, each
   with colour (0,0,0): num_leds writes, 84 for the built-in 6 x 15 layout. *)
C12_FirstRenderWritesAll ==
    /\ (last.op = "new" /\ last.res = "Ok") =>
          /\ framebuffer.height = 6 /\ framebuffer.width = 15
          /\ \A k \in 1..Len(flat_leds(framebuffer)) :
                /\ flat_leds(framebuffer)[k].color = <<0, 0, 0>>
                /\ flat_leds(framebuffer)[k].sync_color = <<>>
    /\ (last.op = "render" /\ last.res = "Ok" /\ trail[1].op = "new") =>
          /\ Len(last.io) = framebuffer.num_leds
          /\ Len(last.io) = 84
          /\ Issued(last) = { flat_leds(framebuffer)[k].index :
                                k \in 1..Len(flat_leds(framebuffer)) }
          /\ Cardinality(Issued(last)) = 84
          /\ \A k \in 1..Len(last.io) :
                /\ last.io[k].cmd = "led_set_color"
                /\ last.io[k].args[2] = 0 /\ last.io[k].args[3] = 0
                /\ last.io[k].args[4] = 0

C12_Witness ==
    /\ last.op = "render" /\ last.res = "Ok" /\ trail[1].op = "new"
    /\ Len(last.io) = 84

\* the Leds of a framebuffer that are out of sync, in flattening order, each as
\* the arguments of the led_set_color that writes its current colour
PendingWrites(fb) ==
    LET dirty == SelectSeq(flat_leds(fb), LAMBDA l : l.sync_color # <<l.color>>)
    IN  [k \in 1..Len(dirty) |->
            <<dirty[k].index, dirty[k].color[1], dirty[k].color[2], dirty[k].color[3]>>]

\* what a render leaves in the framebuffer: colours and indices as before, the
\* last-synced colour of a confirmed Led its colour, of any other Led as before
SyncedAfter(l) ==
    \A k \in 1..Len(flat_leds(framebuffer)) :
        LET now == flat_leds(framebuffer)[k]
            was == flat_leds(l.pre)[k]
        IN  /\ now.index = was.index
            /\ now.color = was.color
            /\ now.sync_color =
                  IF was.index \in Confirmed(l) THEN <<was.color>> ELSE was.sync_color

(* C13, as claimed: render() visits the Leds in row-major flattening order and
   issues led_set_color(index, r, g, b) with the current colour for exactly the
   Leds whose colour differs from their last-synced colour (or that have none),
   in that order; each successful write sets the Led's last-synced colour to
   its colour; after a render() that returns success every Led's last-synced
   colour equals its colour. *)
C13_RenderWritesExactlyPending ==
    last.op = "render" =>
        /\ [k \in 1..Len(last.io) |-> last.io[k].args] = PendingWrites(last.pre)
        /\ SyncedAfter(last)
        /\ last.res = "Ok" => OutOfSync(framebuffer) = {}

(* C13, amended: render() visits the Leds in row-major flattening order and
   issues led_set_color(index, r, g, b) with the current colour for the Leds
   whose colour differs from their last-synced colour (or that have none), in
   that order, up to and including the first write that fails: for exactly
   those Leds when no write fails.  Each successful write sets the Led's
   last-synced colour to its colour; after a render() that returns success
   every Led's last-synced colour equals its colour. *)
C13_RenderWritesPendingUntilFailure ==
    last.op = "render" =>
        /\ Len(last.io) <= Len(PendingWrites(last.pre))
        /\ \A k \in 1..Len(last.io) :
              /\ last.io[k].cmd = "led_set_color"
              /\ last.io[k].args = PendingWrites(last.pre)[k]
              /\ last.io[k].outcome = "fail" <=> (k = Len(last.io) /\ last.res # "Ok")
        /\ last.res = "Ok" => Len(last.io) = Len(PendingWrites(last.pre))
        /\ last.res # "Ok" => last.io # <<>>
        /\ SyncedAfter(last)
        /\ last.res = "Ok" => OutOfSync(framebuffer) = {}

C13_Witness ==
    /\ last.op = "render" /\ last.res # "Ok"
    /\ Len(last.io) = 2
    /\ InSync(last.pre) # {}
    /\ last.io[1].args[1] = 1

\* an in-memory update: nothing on the transport, and every Led keeps its place,
\* its index and its last-synced colour
InMemoryOnly(l) ==
    /\ l.io = <<>>
    /\ l.res = "Ok"
    /\ Len(framebuffer.leds) = Len(l.pre.leds)
    /\ \A i \in 1..Len(framebuffer.leds) :
          /\ Len(framebuffer.leds[i]) = Len(l.pre.leds[i])
          /\ \A j \in 1..Len(framebuffer.leds[i]) :
                /\ framebuffer.leds[i][j].index = l.pre.leds[i][j].index
                /\ framebuffer.leds[i][j].sync_color = l.pre.leds[i][j].sync_color
    /\ framebuffer.width = l.pre.width
    /\ framebuffer.height = l.pre.height
    /\ framebuffer.num_leds = l.pre.num_leds

(* C14: set, fill and clear update in-memory colours only: none issues a
   hardware write or changes a Led's last-synced colour or index.  set(row,
   col, r, g, b) on a present cell changes the colour of exactly the Led that
   get(row, col) returns and of no other Led; fill(r, g, b) sets every Led's
   colour to (r, g, b); clear() leaves the framebuffer as fill(0, 0, 0) does. *)
C14_InMemoryUpdates ==
    /\ last.op \in {"set", "fill", "clear"} => InMemoryOnly(last)
    /\ (last.op = "set" /\ InGrid(last.args[1], last.args[2])
            /\ MapEntry(last.args[1], last.args[2]) # 255) =>
          LET got == FrameBuffer_get(last.pre, last.args[1], last.args[2])
          IN  /\ \A i \in 1..Len(framebuffer.leds) :
                    \A j \in 1..Len(framebuffer.leds[i]) :
                        framebuffer.leds[i][j].color =
                            IF got # <<>> /\ i = last.args[1] + 1 /\ j = last.args[2] + 1
                            THEN last.args[3]
                            ELSE last.pre.leds[i][j].color
              /\ got # <<>> =>
                    /\ last.pre.leds[last.args[1] + 1][last.args[2] + 1] = got[1]
                    /\ FrameBuffer_get(framebuffer, last.args[1], last.args[2])
                          = <<[got[1] EXCEPT !.color = last.args[3]]>>
    /\ last.op = "fill" =>
          \A k \in 1..Len(flat_leds(framebuffer)) :
              flat_leds(framebuffer)[k].color = last.args
    /\ last.op = "clear" =>
          \A k \in 1..Len(flat_leds(framebuffer)) :
              flat_leds(framebuffer)[k].color = <<0, 0, 0>>

C14_Witness ==
    /\ last.op = "set"
    /\ InGrid(last.args[1], last.args[2])
    /\ MapEntry(last.args[1], last.args[2]) # 255
    /\ framebuffer # last.pre
    /\ InSync(last.pre) # {}
    /\ OutOfSync(last.pre) # {}

\* the positions of the devices of an enumeration that carry the signature
MatchingPositions(devs) ==
    { i \in 1..Len(devs) :
        devs[i][1] = 13188 /\ devs[i][2] >= 1 /\ devs[i][2] <= 10 /\ devs[i][3] = 1 }

FirstOf(S) == CHOOSE i \in S : \A j \in S : i <= j

(* C15: construction opens the first device in enumeration order that matches
   the signature and no other: at most one open is attempted per construction,
   no device before the first match is opened, and when opening or
   initializing the first match fails the construction fails without trying a
   later matching device. *)
C15_OpensFirstMatchOnly ==
    last.op = "new" =>
        LET devs == last.args[1]
            env == last.args[2]
            M == MatchingPositions(devs)
        IN  /\ Len(last.ret) <= 1
            /\ last.ret # <<>> => (M # {} /\ last.ret[1] = FirstOf(M))
            /\ (env.api /\ M # {}) => last.ret = <<FirstOf(M)>>
            /\ (env.api /\ M # {} /\ ~(env.open /\ env.access /\ env.ec)) =>
                    /\ last.res \notin {"Ok", "DeviceNotFound"}
                    /\ ctl = "none"
            /\ last.res = "Ok" <=> ctl = "ready"

C15_Witness ==
    /\ last.op = "new"
    /\ last.args[1] = << <<1133, 1, 1>>, <<13188, 10, 1>> >>
    /\ last.ret = <<2>>
    /\ last.res = "Ok"

C15_WitnessFailedOpen ==
    /\ last.op = "new"
    /\ last.args[1] = << <<13188, 1, 1>>, <<13188, 10, 1>> >>
    /\ ~last.args[2].open
    /\ last.ret = <<1>>
    /\ last.res = "HidError"

(* C16: open() continues after a failed command: whatever commands fail, it
   still issues all 8 commands and returns success; a failed command leaves
   its layer's mode or brightness as it was, so success does not imply that a
   layer was initialized. *)
C16_OpenIgnoresFailures ==
    [][ last'.op = "open" =>
          /\ last'.res = "Ok"
          /\ Len(last'.io) = 8
          /\ \A layer \in 0..3 :
                /\ last'.io[2 * layer + 1].outcome = "fail" =>
                        hw'.mode[layer] = hw.mode[layer]
                /\ last'.io[2 * layer + 2].outcome = "fail" =>
                        hw'.value[layer] = hw.value[layer] ]_vars

C16_Witness ==
    /\ last.op = "open"
    /\ last.res = "Ok"
    /\ Len(last.io) = 8
    /\ last.io[1].outcome = "fail"
    /\ last.io[8].outcome = "ok"
    /\ hw.mode[0] = <<7, 128>>
    /\ hw.mode[1] = <<1, 0>>

(* C17: close() issues no transport command, always returns success, and
   changes neither the framebuffer nor saved_layer_mode nor the keyboard, so
   after open() and then close() the layers remain as open() set them;
   saved_layer_mode is None in every reachable state. *)
C17_CloseIsNoOp ==
    /\ [](saved_layer_mode = None)
    /\ [][ last'.op = "close" =>
             /\ last'.io = <<>>
             /\ last'.res = "Ok"
             /\ hw' = hw
             /\ framebuffer' = framebuffer
             /\ saved_layer_mode' = saved_layer_mode ]_vars

C17_Witness ==
    /\ last.op = "close"
    /\ last.res = "Ok"
    /\ last.io = <<>>
    /\ trail[1].op = "open"
    /\ saved_layer_mode = None
    /\ \A layer \in 0..3 : hw.mode[layer] = <<1, 0>> /\ hw.value[layer] = 255

\* the colour the keyboard shows for an LED (unknown while never written)
Shown(index) == IF index \in DOMAIN hw.color THEN Some(hw.color[index]) ELSE None

(* C18: whatever controller operations precede it, direct led_set_color and
   set_led calls among set, fill and render, immediately after a
   render_framebuffer() that returns success the colour the keyboard holds for
   every Led index of the framebuffer is that Led's current framebuffer colour. *)
C18_RenderedMatchesHardware ==
    (last.op = "render" /\ last.res = "Ok") =>
        \A k \in 1..Len(flat_leds(framebuffer)) :
            Shown(flat_leds(framebuffer)[k].index) = Some(flat_leds(framebuffer)[k].color)

\* the writes of an operation name pairwise distinct Leds
OneWritePerLed(l) ==
    \A j, k \in 1..Len(l.io) : l.io[j].args[1] = l.io[k].args[1] => j = k

(* C19: every render() ends after at most one write per Led (at most num_leds
   writes) and stops at the first failed write; re-invoked with no colour
   change in between, on a transport that lets writes through again and again,
   a render eventually returns success with every Led's last-synced colour
   equal to its colour, and no Led confirmed by an earlier render of the
   sequence is written again. *)
C19_RetryReachesSync ==
    /\ [](last.op = "render" =>
            /\ Len(last.io) <= last.pre.num_leds
            /\ OneWritePerLed(last)
            /\ \A k \in 1..Len(last.io) : last.io[k].outcome = "fail" => k = Len(last.io)
            /\ last.res = "Ok" <=> \A k \in 1..Len(last.io) : last.io[k].outcome = "ok")
    /\ Retrying ~> (last.op = "render" /\ last.res = "Ok" /\ OutOfSync(framebuffer) = {})
    /\ [][ (last'.op = "render" /\ ctl = "ready") =>
             /\ Issued(last') \subseteq OutOfSync(framebuffer)
             /\ Confirmed(last') \subseteq InSync(framebuffer')
             /\ InSync(framebuffer) \subseteq InSync(framebuffer')
             /\ (last.op = "render" => Issued(last') \cap Confirmed(last) = {}) ]_vars

C19_Witness ==
    /\ last.op = "render" /\ last.res = "Ok" /\ last.io # <<>>
    /\ trail[1].op = "render" /\ trail[1].res # "Ok"
    /\ trail[2].op = "render" /\ trail[2].res # "Ok"
    /\ OutOfSync(framebuffer) = {}
    /\ Len(last.io) < framebuffer.num_leds

LedSetters == {"Led.set_color_rgb", "Led.set_color_hex"}

LedMakers == {"Led.new", "Led.from_rgb", "Led.from_hex"}

(* C20: get(row, col) and set_led(led) work on copies.  Changing the colour of
   a Led value the caller holds (set_color_rgb, set_color_hex), one returned
   by get included, leaves the framebuffer and the keyboard as they were, so
   the next render writes what it would have written without the change
   (nothing, when the framebuffer was in sync).  set_led(led) changes no
   framebuffer Led's colour or last-synced colour and not the caller's Led; it
   issues one write, of the passed Led's index and colour, exactly when that
   Led's last-synced colour differs from its colour, which is always so for a
   Led made by new, from_rgb, from_hex or get_led. *)
C20_CopiesLeaveFramebuffer ==
    /\ [][ last'.op \in LedSetters =>
             /\ framebuffer' = framebuffer
             /\ hw' = hw
             /\ FrameBuffer_render(framebuffer', hw', 0).io =
                    FrameBuffer_render(framebuffer, hw, 0).io
             /\ OutOfSync(framebuffer) = {} =>
                    FrameBuffer_render(framebuffer', hw', 0).io = <<>> ]_vars
    /\ [][ last'.op = "set_led" =>
             /\ framebuffer' = framebuffer
             /\ led' = led
             /\ last'.io # <<>> <=> last'.args.sync_color # Some(last'.args.color)
             /\ last'.io # <<>> =>
                    /\ Len(last'.io) = 1
                    /\ last'.io[1].cmd = "led_set_color"
                    /\ last'.io[1].args = <<last'.args.index>> \o last'.args.color ]_vars
    /\ []((last.op \in LedMakers \/ (last.op = "get_led" /\ last.res = "Ok")) =>
            (led # None /\ led[1].sync_color = None))
    /\ [][ (last'.op = "set_led" /\ last.op \in LedMakers \cup {"get_led"} /\ led # None
               /\ led[1].sync_color = None) =>
             last'.io # <<>> ]_vars

C20_Witness ==
    /\ last.op = "set_led" /\ last.res = "Ok" /\ last.io # <<>>
    /\ trail[1].op = "Led.set_color_rgb"
    /\ trail[2].op = "get"
    /\ last.args.sync_color # None
    /\ OutOfSync(framebuffer) = {}
    /\ \E k \in 1..Len(flat_leds(framebuffer)) :
          /\ flat_leds(framebuffer)[k].index = last.args.index
          /\ flat_leds(framebuffer)[k].color # last.args.color
          /\ Shown(last.args.index) = Some(last.args.color)

====
